---------------------------- MODULE Spec2Model ----------------------------
(***************************************************************************)
(* Russian Fish: the rule engine and turn machine of src/App.tsx with the  *)
(* pure helpers of src/utils.ts.                                           *)
(*                                                                         *)
(* The React component is modelled as a state machine.  Every batch of     *)
(* setState calls made by one handler, timer callback or promise           *)
(* continuation is one step; the effects that React runs after the         *)
(* resulting render (the win detector and the AI turn effect) are part of  *)
(* that step.  Values a callback reads from the render it was created in   *)
(* are stored with the pending timer (its closure); values it updates      *)
(* with a functional updater are read from the current state.              *)
(*                                                                         *)
(* Timers follow the HTML timer rule: a callback waits for every callback  *)
(* that was started before it with a delay not longer than its own, and    *)
(* may otherwise arrive any time later.  User input may arrive between any *)
(* two steps.                                                              *)
(***************************************************************************)
EXTENDS Integers, Sequences, FiniteSets, TLC

VARIABLES
    deck,                \* App.tsx:219
    discardPile,         \* App.tsx:220
    hands,               \* App.tsx:222
    currentTurn,         \* App.tsx:226
    activeSuit,          \* App.tsx:227
    winner,              \* App.tsx:228
    isSuitSelectionOpen, \* App.tsx:229
    gameLog,             \* App.tsx:230
    isDealing,           \* App.tsx:232
    isAnimating,         \* App.tsx:233
    isMenuOpen,          \* App.tsx:235
    showTutorial,        \* App.tsx:238
    attackStack,         \* App.tsx:241
    timers,              \* pending setInterval / setTimeout callbacks, in start order
    last,                \* the step just taken (history)
    moves,               \* turn actions started so far (history, bounds the run)
    deals,               \* calls of startDeal so far (history, bounds the run)
    rush,                \* user inputs made while a timer was pending (history)
    probe                \* inputs and result of a pure function under test

vars == <<deck, discardPile, hands, currentTurn, activeSuit, winner,
          isSuitSelectionOpen, gameLog, isDealing, isAnimating, isMenuOpen,
          showTutorial, attackStack, timers, last, moves, deals, rush,
          probe>>

-----------------------------------------------------------------------------
(* Bounds of the model *)

\* shuffles the random source can produce
NumSeeds == 2

\* turn actions (human plays and draws, AI turns) started in one run
MaxMoves == 2

\* calls of startDeal in one run, the one at mount included
MaxDeals == 2

\* clicks the user makes while some timer is pending (cards being dealt, a
\* card flying, an AI player thinking), in one run
MaxRush == 1

\* consecutive getNextPlayer applications in the turn-order probe
MaxAdvance == 4

\* largest attackStack handed to isValidMove in the legality probe, and to
\* performDraw in the draw probe
MaxStack == 2

\* cards of the reduced deck the draw probes take their piles from
MaxPile == 6

\* largest draw pile handed to the draw probes
MaxDeckLen == 1
\* the most cards of a hand handed to performAITurn in the policy probe
MaxHand == 2

-----------------------------------------------------------------------------
(* Program constants *)

HAND_SIZE == 8

DealIntervalMs == 40

AnimationMs == 500

ThinkMs == 800

LogLimit == 50
\* the most entries a single handler or callback logs
MaxLogged == 2

SUITS == <<"hearts", "diamonds", "clubs", "spades">>

RANKS == <<"2", "3", "4", "5", "6", "7", "8", "9", "10", "J", "Q", "K", "A">>

PlayerOrder == <<"south", "west", "north", "east">>

Players == {PlayerOrder[i] : i \in 1..4}

Suits == {SUITS[i] : i \in 1..4}

\* winner === null
Null == "null"

\* discardPile[discardPile.length - 1] of an empty pile, d.pop() of an empty deck
Undefined == [id |-> -1, suit |-> "undefined", rank |-> "undefined"]

-----------------------------------------------------------------------------
(* src/utils.ts *)

createDeck ==
    [i \in 1..(Len(SUITS) * Len(RANKS)) |->
        [id   |-> i - 1,
         suit |-> SUITS[((i - 1) \div Len(RANKS)) + 1],
         rank |-> RANKS[((i - 1) % Len(RANKS)) + 1]]]

Cards == {createDeck[i] : i \in 1..Len(createDeck)}

\* isValidMove letting the wildcard through an attack
isValidMoveJackBeatsAttack(card, topCard, suit, stack) ==
    IF topCard = Undefined THEN FALSE
    ELSE IF stack > 0 THEN card.rank = "2" \/ card.rank = "J"
    ELSE IF card.rank = "J" THEN TRUE
    ELSE IF card.suit = suit THEN TRUE
    ELSE IF card.rank = topCard.rank THEN TRUE
    ELSE FALSE

\* isValidMove following the suit printed on the top card
isValidMoveTopSuit(card, topCard, suit, stack) ==
    IF topCard = Undefined THEN FALSE
    ELSE IF stack > 0 THEN card.rank = "2"
    ELSE IF card.rank = "J" THEN TRUE
    ELSE IF card.suit = topCard.suit THEN TRUE
    ELSE IF card.rank = topCard.rank THEN TRUE
    ELSE FALSE

isValidMove(card, topCard, suit, stack) ==
    IF topCard = Undefined THEN FALSE
    ELSE IF stack > 0 THEN card.rank = "2"
    ELSE IF card.rank = "J" THEN TRUE
    ELSE IF card.suit = suit THEN TRUE
    ELSE IF card.rank = topCard.rank THEN TRUE
    ELSE FALSE

indexOf(order, x) == CHOOSE i \in 1..Len(order) : order[i] = x

\* getNextPlayer running off the end of the order instead of wrapping
getNextPlayerNoWrap(current, skip) ==
    LET idx   == (CHOOSE i \in 1..4 : PlayerOrder[i] = current) - 1
        steps == IF skip THEN 2 ELSE 1
    IN  IF idx + steps > 3 THEN PlayerOrder[4] ELSE PlayerOrder[idx + steps + 1]

getNextPlayer(current, skip) ==
    LET idx   == indexOf(PlayerOrder, current) - 1
        steps == IF skip THEN 2 ELSE 1
    IN  PlayerOrder[((idx + steps) % 4) + 1]


\* Math.random(): the k-th seed starts a linear congruential stream
SeedValue(seed) == 1 + ((seed * 4055) % 65536)

NextRandom(x) == (75 * x + 74) % 65537

RECURSIVE fisherYates(_, _, _)
\* the loop of shuffleDeck, i counting down from length - 1 to 1 (0-based)
fisherYates(newDeck, i, x) ==
    IF i < 1 THEN newDeck
    ELSE LET r == NextRandom(x)
             j == r % (i + 1)
             swapped == [newDeck EXCEPT ![i + 1] = newDeck[j + 1],
                                        ![j + 1] = newDeck[i + 1]]
         IN  fisherYates(swapped, i - 1, r)

shuffleDeck(d, seed) == fisherYates(d, Len(d) - 1, SeedValue(seed))

-----------------------------------------------------------------------------
(* Sequence helpers standing for the array methods the code uses *)

\* array[array.length - 1]
Top(s) == IF Len(s) = 0 THEN Undefined ELSE s[Len(s)]

\* the array after pop()
Popped(s) == IF Len(s) = 0 THEN s ELSE SubSeq(s, 1, Len(s) - 1)

\* array.filter(c => c.id !== id)
WithoutId(s, id) == SelectSeq(s, LAMBDA c : c.id # id)

Range(s) == {s[i] : i \in 1..Len(s)}

-----------------------------------------------------------------------------
(* The component's state as one value: what a render sees *)

State ==
    [deck |-> deck, discardPile |-> discardPile, hands |-> hands,
     currentTurn |-> currentTurn, activeSuit |-> activeSuit, winner |-> winner,
     isSuitSelectionOpen |-> isSuitSelectionOpen, gameLog |-> gameLog,
     isDealing |-> isDealing, isAnimating |-> isAnimating,
     isMenuOpen |-> isMenuOpen, showTutorial |-> showTutorial,
     attackStack |-> attackStack, timers |-> timers]

\* the cards of the game state: deck, hands and discard pile, with repetitions
AllCards(s) ==
    s.deck \o s.hands["south"] \o s.hands["west"] \o s.hands["north"]
           \o s.hands["east"] \o s.discardPile

EmptyHands == [p \in Players |-> <<>>]

\* a pending timer callback with what it captured from its render; ticks
\* counts the periods of DealIntervalMs a running deal has ticked off since
\* the timer was started
NoTimer ==
    [kind |-> "none", ms |-> 0, dealIndex |-> 0, pid |-> Null,
     card |-> Undefined, hand |-> <<>>, deck |-> <<>>, discardPile |-> <<>>,
     activeSuit |-> Null, attackStack |-> 0, drawnCards |-> <<>>,
     didReshuffle |-> FALSE, ticks |-> 0]

RemoveAt(s, i) == SubSeq(s, 1, i - 1) \o SubSeq(s, i + 1, Len(s))

\* the tick of the interval at position i of ts closes a period of
\* DealIntervalMs: of the intervals running side by side, which tick in turn,
\* it is the one that has dealt most
ClosesPeriod(ts, i) ==
    \A k \in 1..Len(ts) :
        ts[k].kind = "deal" => ts[k].dealIndex <= ts[i].dealIndex

\* a timeout is overdue once the intervals have ticked off its delay
Overdue(cl) == cl.kind # "deal" /\ cl.ticks * DealIntervalMs >= cl.ms

\* HTML timers: a callback runs only after every callback started before it
\* whose delay is not longer, and an interval's tick that closes a period
\* only after the timeouts that are overdue
CanFire(i) ==
    /\ i \in 1..Len(timers)
    /\ \A j \in 1..(i - 1) : timers[j].ms > timers[i].ms
    /\ (timers[i].kind = "deal" /\ ClosesPeriod(timers, i))
         => \A j \in 1..Len(timers) : ~ Overdue(timers[j])

\* addLog without the shift that keeps the log to LogLimit entries
addLogNoShift(s, msg) ==
    [s EXCEPT !.gameLog = Append(s.gameLog, msg)]

addLog(s, msg) ==
    LET newLog == Append(s.gameLog, msg)
    IN  [s EXCEPT !.gameLog = IF Len(newLog) > LogLimit THEN Tail(newLog)
                                                        ELSE newLog]

-----------------------------------------------------------------------------
(* Effects run after a render *)

\* dependency array of the AI turn effect
aiDeps(s) ==
    <<s.currentTurn, s.winner, s.isDealing, s.activeSuit, s.attackStack,
      s.showTutorial>>

\* the early return of the AI turn effect
aiEffectRuns(s) ==
    ~ (s.currentTurn = "south" \/ s.winner # Null \/ s.isDealing
       \/ s.isAnimating \/ s.showTutorial)

\* performAITurn as scheduled by the effect: it sleeps, then reads its render
aiTimer(s) ==
    [NoTimer EXCEPT !.kind = "ai", !.ms = ThinkMs, !.pid = s.currentTurn,
                    !.hand = s.hands[s.currentTurn], !.deck = s.deck,
                    !.discardPile = s.discardPile,
                    !.activeSuit = s.activeSuit,
                    !.attackStack = s.attackStack]

\* the win detector effect: setWinner for every empty hand, the last one stays
winDetector(s) ==
    LET empty == {i \in 1..4 : Len(s.hands[PlayerOrder[i]]) = 0
                               /\ Len(s.discardPile) > 0}
    IN  IF s.isDealing \/ empty = {} THEN s.winner
        ELSE PlayerOrder[CHOOSE i \in empty : \A k \in empty : k <= i]

\* the render after a batch of updates, and its effects.  The AI effect reads
\* the render in which its dependencies changed; the winner the detector sets
\* arrives with the next render, whose AI effect returns at once.
Rendered(old, new) ==
    LET scheduled == IF aiDeps(new) # aiDeps(old) /\ aiEffectRuns(new)
                     THEN [new EXCEPT !.timers = Append(@, aiTimer(new))]
                     ELSE new
    IN  [scheduled EXCEPT !.winner = winDetector(new)]

\* one step of the component: the batch `new`, rendered
Becomes(new) ==
    \E r \in {Rendered(State, new)} :
        /\ deck' = r.deck
        /\ discardPile' = r.discardPile
        /\ hands' = r.hands
        /\ currentTurn' = r.currentTurn
        /\ activeSuit' = r.activeSuit
        /\ winner' = r.winner
        /\ isSuitSelectionOpen' = r.isSuitSelectionOpen
        /\ gameLog' = r.gameLog
        /\ isDealing' = r.isDealing
        /\ isAnimating' = r.isAnimating
        /\ isMenuOpen' = r.isMenuOpen
        /\ showTutorial' = r.showTutorial
        /\ attackStack' = r.attackStack
        /\ timers' = r.timers

-----------------------------------------------------------------------------
(* Dealing *)

dealTimer(idx) ==
    [NoTimer EXCEPT !.kind = "deal", !.ms = DealIntervalMs, !.dealIndex = idx]

\* the pending timeouts when an interval is started: with no interval
\* running yet, its first tick comes a whole period after their start
Preceding(ts) ==
    [k \in 1..Len(ts) |->
        IF \A j \in 1..Len(ts) : ts[j].kind # "deal"
        THEN [ts[k] EXCEPT !.ticks = @ + 1]
        ELSE ts[k]]

startDeal(s, seed) ==
    [s EXCEPT !.winner = Null,
              !.gameLog = <<>>,
              !.isDealing = TRUE,
              !.hands = EmptyHands,
              !.attackStack = 0,
              !.deck = shuffleDeck(createDeck, seed),
              !.discardPile = <<>>,
              !.timers = Append(Preceding(@), dealTimer(0))]

finishDealing(s) ==
    LET startCard == Top(s.deck)
        finalDeck == Popped(s.deck)
        flipped ==
            IF startCard = Undefined THEN s
            ELSE LET initialAttack == IF startCard.rank = "2" THEN 2 ELSE 0
                     t == [s EXCEPT !.discardPile = <<startCard>>,
                                    !.activeSuit = startCard.suit,
                                    !.attackStack = initialAttack]
                 IN  IF startCard.rank = "2"
                     THEN addLog(t, <<"Game starts with a 2">>)
                     ELSE addLog(t, <<"Game Started", startCard.rank, startCard.suit>>)
    IN  [flipped EXCEPT !.isDealing = FALSE,
                        !.currentTurn = "south",
                        !.deck = finalDeck]

\* the pending timeouts after the tick of the interval at position i of ts
Ticked(ts, i) ==
    [k \in 1..Len(ts) |->
        IF ts[k].kind # "deal" /\ ClosesPeriod(ts, i)
        THEN [ts[k] EXCEPT !.ticks = @ + 1]
        ELSE ts[k]]

\* one run of the setInterval callback of startDeal, for the timer at position i
dealInterval(s, i) ==
    LET dealIndex == s.timers[i].dealIndex
        totalCardsToDeal == HAND_SIZE * 4
        rest == RemoveAt(Ticked(s.timers, i), i)
    IN  IF dealIndex >= totalCardsToDeal
        THEN finishDealing([s EXCEPT !.timers = rest])
        ELSE LET targetPlayer == PlayerOrder[(dealIndex % 4) + 1]
                 card == Top(s.deck)
                 dealt == IF card = Undefined THEN s
                          ELSE [s EXCEPT !.hands[targetPlayer] = Append(@, card)]
             IN  [dealt EXCEPT !.deck = Popped(s.deck),
                               !.timers = Append(rest, dealTimer(dealIndex + 1))]

-----------------------------------------------------------------------------
(* Turn logic *)

\* advanceTurn skipping a player after a 2 as it does after an Ace
advanceTurnTwoSkips(s, playedCard, currentPlayer) ==
    LET next == IF playedCard # Undefined /\ playedCard.rank \in {"A", "2"}
                THEN getNextPlayer(currentPlayer, TRUE)
                ELSE getNextPlayer(currentPlayer, FALSE)
        effect ==
            IF playedCard = Undefined THEN s
            ELSE IF playedCard.rank = "A"
                 THEN addLog(s, <<"played Ace", currentPlayer>>)
            ELSE IF playedCard.rank = "2"
                 THEN [s EXCEPT !.attackStack = @ + 2]
            ELSE s
    IN  [effect EXCEPT !.currentTurn = next]

\* advanceTurn passing the turn to the next player after an Ace too
advanceTurnNoSkip(s, playedCard, currentPlayer) ==
    LET next == getNextPlayer(currentPlayer, FALSE)
        effect ==
            IF playedCard = Undefined THEN s
            ELSE IF playedCard.rank = "A"
                 THEN addLog(s, <<"played Ace", currentPlayer>>)
            ELSE IF playedCard.rank = "2"
                 THEN [s EXCEPT !.attackStack = @ + 2]
            ELSE s
    IN  [effect EXCEPT !.currentTurn = next]

\* advanceTurn charging one card for a 2
advanceTurnAddsOne(s, playedCard, currentPlayer) ==
    LET next == IF playedCard # Undefined /\ playedCard.rank = "A"
                THEN getNextPlayer(currentPlayer, TRUE)
                ELSE getNextPlayer(currentPlayer, FALSE)
        effect ==
            IF playedCard = Undefined THEN s
            ELSE IF playedCard.rank = "A"
                 THEN addLog(s, <<"played Ace", currentPlayer>>)
            ELSE IF playedCard.rank = "2"
                 THEN [s EXCEPT !.attackStack = @ + 1]
            ELSE s
    IN  [effect EXCEPT !.currentTurn = next]

\* playedCard is Undefined for the null of a draw
advanceTurn(s, playedCard, currentPlayer) ==
    LET next == IF playedCard # Undefined /\ playedCard.rank = "A"
                THEN getNextPlayer(currentPlayer, TRUE)
                ELSE getNextPlayer(currentPlayer, FALSE)
        effect ==
            IF playedCard = Undefined THEN s
            ELSE IF playedCard.rank = "A"
                 THEN addLog(s, <<"played Ace", currentPlayer>>)
            ELSE IF playedCard.rank = "2"
                 THEN [s EXCEPT !.attackStack = @ + 2]
            ELSE s
    IN  [effect EXCEPT !.currentTurn = next]

\* bestSuitOf letting the later suit win a tie
bestSuitOfLaterWins(newHand) ==
    LET suitsInHand == [x \in Suits |->
                          Cardinality({i \in 1..Len(newHand) : newHand[i].suit = x})]
        best == CHOOSE i \in 1..4 :
                   /\ \A k \in 1..4 : suitsInHand[SUITS[k]] <= suitsInHand[SUITS[i]]
                   /\ \A k \in (i + 1)..4 : suitsInHand[SUITS[k]] < suitsInHand[SUITS[i]]
    IN  SUITS[best]

\* the suit a non-human player names after a Jack
bestSuitOf(newHand) ==
    LET suitsInHand == [x \in Suits |->
                          Cardinality({i \in 1..Len(newHand) : newHand[i].suit = x})]
        best == CHOOSE i \in 1..4 :
                   /\ \A k \in 1..4 : suitsInHand[SUITS[k]] <= suitsInHand[SUITS[i]]
                   /\ \A k \in 1..(i - 1) : suitsInHand[SUITS[k]] < suitsInHand[SUITS[i]]
    IN  SUITS[best]

\* executePlay leaving the active suit alone after a card that is no Jack
executePlayKeepsSuit(s, card, pid, closureHand) ==
    LET newHand == WithoutId(closureHand, card.id)
        placed  == [s EXCEPT !.hands[pid] = newHand,
                             !.discardPile = Append(@, card)]
    IN  IF Len(newHand) = 0 THEN [placed EXCEPT !.winner = pid]
        ELSE IF card.rank = "J"
        THEN IF pid = "south"
             THEN [placed EXCEPT !.isSuitSelectionOpen = TRUE]
             ELSE advanceTurn(
                      addLog([placed EXCEPT !.activeSuit = bestSuitOf(newHand)],
                             <<"played Jack and chose", pid, bestSuitOf(newHand)>>),
                      card, pid)
        ELSE advanceTurn(addLog(placed, <<"played", pid, card.rank, card.suit>>),
                         card, pid)

\* executePlay without its win check: a last Jack goes on to the suit choice
executePlayNoWinCheck(s, card, pid, closureHand) ==
    LET newHand == WithoutId(closureHand, card.id)
        placed  == [s EXCEPT !.hands[pid] = newHand,
                             !.discardPile = Append(@, card)]
    IN  IF card.rank = "J"
        THEN IF pid = "south"
             THEN [placed EXCEPT !.isSuitSelectionOpen = TRUE]
             ELSE advanceTurn(
                      addLog([placed EXCEPT !.activeSuit = bestSuitOf(newHand)],
                             <<"played Jack and chose", pid, bestSuitOf(newHand)>>),
                      card, pid)
        ELSE advanceTurn(
                 addLog([placed EXCEPT !.activeSuit = card.suit],
                        <<"played", pid, card.rank, card.suit>>),
                 card, pid)

\* closureHand is hands[pid] of the render the caller was created in
executePlay(s, card, pid, closureHand) ==
    LET newHand == WithoutId(closureHand, card.id)
        placed  == [s EXCEPT !.hands[pid] = newHand,
                             !.discardPile = Append(@, card)]
    IN  IF Len(newHand) = 0
        THEN [placed EXCEPT !.winner = pid]
        ELSE IF card.rank = "J"
        THEN IF pid = "south"
             THEN [placed EXCEPT !.isSuitSelectionOpen = TRUE]
             ELSE LET bestSuit == bestSuitOf(newHand)
                  IN  advanceTurn(
                          addLog([placed EXCEPT !.activeSuit = bestSuit],
                                 <<"played Jack and chose", pid, bestSuit>>),
                          card, pid)
        ELSE advanceTurn(
                 addLog([placed EXCEPT !.activeSuit = card.suit],
                        <<"played", pid, card.rank, card.suit>>),
                 card, pid)

-----------------------------------------------------------------------------
(* Deck management *)

\* reshuffleDiscard setting aside the bottom card of the pile instead of the top
reshuffleDiscardKeepsBottom(currentDiscard, seed) ==
    IF Len(currentDiscard) <= 1
    THEN [reshuffled |-> FALSE, newDeck |-> <<>>, topCard |-> Undefined]
    ELSE [reshuffled |-> TRUE,
          newDeck |-> shuffleDeck(Tail(currentDiscard), seed),
          topCard |-> Head(currentDiscard)]

\* null is reshuffled = FALSE
reshuffleDiscard(currentDiscard, seed) ==
    IF Len(currentDiscard) <= 1
    THEN [reshuffled |-> FALSE, newDeck |-> <<>>, topCard |-> Undefined]
    ELSE [reshuffled |-> TRUE,
          newDeck |-> shuffleDeck(Popped(currentDiscard), seed),
          topCard |-> Top(currentDiscard)]

\* drawCardForPlayerLogic reshuffling as soon as the deck is down to one card
drawCardForPlayerLogicEarly(currentDeck, currentDiscard, seed) ==
    IF Len(currentDeck) <= 1
    THEN LET res == reshuffleDiscard(currentDiscard, seed)
         IN  IF ~ res.reshuffled
             THEN [card |-> Undefined, newDeck |-> currentDeck,
                   newDiscard |-> currentDiscard, reshuffled |-> FALSE]
             ELSE IF Len(res.newDeck) = 0
             THEN [card |-> Undefined, newDeck |-> res.newDeck,
                   newDiscard |-> <<res.topCard>>, reshuffled |-> TRUE]
             ELSE [card |-> Top(res.newDeck), newDeck |-> Popped(res.newDeck),
                   newDiscard |-> <<res.topCard>>, reshuffled |-> TRUE]
    ELSE [card |-> Top(currentDeck), newDeck |-> Popped(currentDeck),
          newDiscard |-> currentDiscard, reshuffled |-> FALSE]

\* card is Undefined for null
drawCardForPlayerLogic(currentDeck, currentDiscard, seed) ==
    IF Len(currentDeck) = 0
    THEN LET res == reshuffleDiscard(currentDiscard, seed)
         IN  IF ~ res.reshuffled
             THEN [card |-> Undefined, newDeck |-> currentDeck,
                   newDiscard |-> currentDiscard, reshuffled |-> FALSE]
             ELSE IF Len(res.newDeck) = 0
             THEN [card |-> Undefined, newDeck |-> res.newDeck,
                   newDiscard |-> <<res.topCard>>, reshuffled |-> TRUE]
             ELSE [card |-> Top(res.newDeck), newDeck |-> Popped(res.newDeck),
                   newDiscard |-> <<res.topCard>>, reshuffled |-> TRUE]
    ELSE [card |-> Top(currentDeck), newDeck |-> Popped(currentDeck),
          newDiscard |-> currentDiscard, reshuffled |-> FALSE]

RECURSIVE drawLoop(_, _, _)
\* the body of the for loop without its break: a failed draw is pushed like a
\* card and the loop goes on
drawIterationNoBreak(acc, res, remaining, seed) ==
    LET moved == [acc EXCEPT !.currentD = res.newDeck,
                             !.currentDP = IF res.reshuffled THEN res.newDiscard
                                           ELSE @,
                             !.didReshuffle = @ \/ res.reshuffled]
    IN  drawLoop([moved EXCEPT !.drawnCards = Append(@, res.card)],
                 remaining - 1, seed)

\* the body of the for loop of performDraw once drawCardForPlayerLogic has
\* returned res; acc holds currentD, currentDP, drawnCards, didReshuffle
drawIteration(acc, res, remaining, seed) ==
    LET moved == [acc EXCEPT !.currentD = res.newDeck,
                             !.currentDP = IF res.reshuffled THEN res.newDiscard
                                           ELSE @,
                             !.didReshuffle = @ \/ res.reshuffled]
    IN  IF res.card = Undefined THEN moved
        ELSE drawLoop([moved EXCEPT !.drawnCards = Append(@, res.card)],
                      remaining - 1, seed)

\* the for loop of performDraw
drawLoop(acc, remaining, seed) ==
    IF remaining <= 0 THEN acc
    ELSE drawIteration(acc,
                       drawCardForPlayerLogic(acc.currentD, acc.currentDP, seed),
                       remaining, seed)

\* performDraw after its await: the commit.  cl holds the locals and the
\* attackStack of the render performDraw was created in
commitDraw(s, cl) ==
    LET piles == [s EXCEPT !.discardPile = IF cl.didReshuffle THEN cl.discardPile
                                           ELSE @,
                           !.deck = cl.deck,
                           !.hands[cl.pid] = @ \o cl.drawnCards]
        logged == IF cl.attackStack > 0
                  THEN [addLog(piles, <<"drew cards (Attack Penalty)", cl.pid,
                                        Len(cl.drawnCards)>>)
                          EXCEPT !.attackStack = 0]
                  ELSE addLog(piles, <<"drew a card", cl.pid>>)
    IN  [advanceTurn(logged, Undefined, cl.pid) EXCEPT !.isAnimating = FALSE]

\* performDraw from the end of its for loop, which left acc, up to its await.
\* Without a drawn card there is no animation to await and the commit follows
\* in the same batch.
afterDrawLoop(s, pid, stack, acc) ==
    LET cl  == [NoTimer EXCEPT !.kind = "draw", !.ms = AnimationMs, !.pid = pid,
                               !.deck = acc.currentD,
                               !.discardPile = acc.currentDP,
                               !.drawnCards = acc.drawnCards,
                               !.didReshuffle = acc.didReshuffle,
                               !.attackStack = stack]
        begun == [(IF acc.didReshuffle
                   THEN addLog(s, <<"Deck reshuffled from discard pile.">>)
                   ELSE s) EXCEPT !.isAnimating = TRUE]
    IN  IF Len(acc.drawnCards) > 0
        THEN [begun EXCEPT !.timers = Append(@, cl)]
        ELSE commitDraw(begun, cl)

\* performDraw up to its await; d, dp and stack are deck, discardPile and
\* attackStack of the caller's render
performDraw(s, pid, count, d, dp, stack, seed) ==
    afterDrawLoop(s, pid, stack,
                  drawLoop([currentD |-> d, currentDP |-> dp,
                            drawnCards |-> <<>>, didReshuffle |-> FALSE],
                           count, seed))

-----------------------------------------------------------------------------
(* Handlers *)

\* the early return without its test of the pending suit choice
humanBlockedButSuit(s) ==
    \/ s.currentTurn # "south"
    \/ s.winner # Null
    \/ s.isAnimating
    \/ s.showTutorial
    \/ s.isMenuOpen

\* the early return shared by handleCardClick and handleDeckClick
humanBlocked(s) ==
    \/ s.currentTurn # "south"
    \/ s.winner # Null
    \/ s.isSuitSelectionOpen
    \/ s.isAnimating
    \/ s.showTutorial
    \/ s.isMenuOpen

playTimer(pid, card, closureHand) ==
    [NoTimer EXCEPT !.kind = "play", !.ms = AnimationMs, !.pid = pid,
                    !.card = card, !.hand = closureHand]

\* handleCardClick up to its await
handleCardClick(s, card) ==
    IF humanBlocked(s) THEN s
    ELSE LET topCard == Top(s.discardPile)
         IN  IF topCard # Undefined
                /\ isValidMove(card, topCard, s.activeSuit, s.attackStack)
             THEN [s EXCEPT !.isAnimating = TRUE,
                            !.timers = Append(@, playTimer("south", card,
                                                           s.hands["south"]))]
             ELSE s

\* the count a draw asks for
drawCount(stack) == IF stack > 0 THEN stack ELSE 1

handleDeckClick(s, seed) ==
    IF humanBlocked(s) THEN s
    ELSE performDraw(s, "south", drawCount(s.attackStack), s.deck,
                     s.discardPile, s.attackStack, seed)

handleSuitSelect(s, suit) ==
    advanceTurn(
        addLog([s EXCEPT !.activeSuit = suit, !.isSuitSelectionOpen = FALSE],
               <<"You changed suit to", suit>>),
        [id |-> -1, suit |-> suit, rank |-> "J"], "south")

\* the continuation of handleCardClick and of performAITurn after the
\* animation: executePlay, then setIsAnimating(false)
finishPlay(s, cl) ==
    [executePlay(s, cl.card, cl.pid, cl.hand) EXCEPT !.isAnimating = FALSE]

\* array.find(test) is the first element of array.filter(test), or undefined
First(s) == IF Len(s) = 0 THEN Undefined ELSE s[1]

\* aiChoice looking for a card of the top card's rank before one of the
\* active suit
aiChoiceRankFirst(validMoves, topCard, suit, stack) ==
    IF stack > 0 THEN validMoves[1]
    ELSE LET nonJacks == SelectSeq(validMoves, LAMBDA c : c.rank # "J")
             bySuit == First(SelectSeq(nonJacks, LAMBDA c : c.suit = suit))
             byRank == First(SelectSeq(nonJacks,
                                       LAMBDA c : c.rank = topCard.rank))
         IN  IF Len(nonJacks) > 0
             THEN IF byRank # Undefined THEN byRank
                  ELSE IF bySuit # Undefined THEN bySuit
                  ELSE nonJacks[1]
             ELSE validMoves[1]

\* the card performAITurn picks among validMoves (non-empty)
aiChoice(validMoves, topCard, suit, stack) ==
    IF stack > 0 THEN validMoves[1]
    ELSE LET nonJacks == SelectSeq(validMoves, LAMBDA c : c.rank # "J")
             bySuit == First(SelectSeq(nonJacks, LAMBDA c : c.suit = suit))
             byRank == First(SelectSeq(nonJacks,
                                       LAMBDA c : c.rank = topCard.rank))
         IN  IF Len(nonJacks) > 0
             THEN IF bySuit # Undefined THEN bySuit
                  ELSE IF byRank # Undefined THEN byRank
                  ELSE nonJacks[1]
             ELSE validMoves[1]

\* performAITurn after its sleep, up to its next await; cl is its render
performAITurn(s, cl, seed) ==
    LET topCard == Top(cl.discardPile)
        validMoves == SelectSeq(cl.hand,
                          LAMBDA c : isValidMove(c, topCard, cl.activeSuit,
                                                 cl.attackStack))
    IN  IF topCard = Undefined THEN s
        ELSE IF Len(validMoves) > 0
        THEN [s EXCEPT !.isAnimating = TRUE,
                       !.timers = Append(@,
                           playTimer(cl.pid,
                                     aiChoice(validMoves, topCard, cl.activeSuit,
                                              cl.attackStack),
                                     cl.hand))]
        ELSE performDraw(s, cl.pid, drawCount(cl.attackStack), cl.deck,
                         cl.discardPile, cl.attackStack, seed)

-----------------------------------------------------------------------------
(* What the page lets the user reach: overlays cover what lies below them *)

\* the Card of the human's hand is rendered with disabled = !playable
cardEnabled(s, card) ==
    /\ Top(s.discardPile) # Undefined
    /\ s.currentTurn = "south" /\ s.winner = Null /\ ~ s.isDealing
    /\ ~ s.isSuitSelectionOpen /\ ~ s.isAnimating /\ ~ s.showTutorial
    /\ ~ s.isMenuOpen
    /\ isValidMove(card, Top(s.discardPile), s.activeSuit, s.attackStack)

\* the restart button of the top bar, or Play Again on the winner overlay
restartReachable(s) == ~ s.showTutorial /\ ~ s.isMenuOpen

\* the help and menu buttons lie under every overlay
topBarReachable(s) == ~ s.showTutorial /\ ~ s.isMenuOpen /\ s.winner = Null

\* the suit buttons are rendered while isSuitSelectionOpen, under the overlays
suitButtonsReachable(s) ==
    s.isSuitSelectionOpen /\ ~ s.showTutorial /\ ~ s.isMenuOpen /\ s.winner = Null

-----------------------------------------------------------------------------
(* Steps *)

\* no pure function under test; result and path hold what the calls returned
NoProbe == [fn |-> "none", card |-> Undefined, topCard |-> Undefined,
            suit |-> Null, stack |-> 0, start |-> Null, path |-> <<>>,
            deck |-> <<>>, discard |-> <<>>, seed |-> 0, hand |-> <<>>,
            result |-> <<>>]

Did(op, pid, card, asked, count) ==
    [op |-> op, pid |-> pid, card |-> card, asked |-> asked, count |-> count]

Without(i) == [State EXCEPT !.timers = RemoveAt(@, i)]

\* the component right after it mounted: the initial useState values, then
\* the mount effect's startDeal
Mounted(seed, tutorial) ==
    [deck |-> shuffleDeck(createDeck, seed), discardPile |-> <<>>,
     hands |-> EmptyHands, currentTurn |-> "south", activeSuit |-> "spades",
     winner |-> Null, isSuitSelectionOpen |-> FALSE, gameLog |-> <<>>,
     isDealing |-> TRUE, isAnimating |-> FALSE, isMenuOpen |-> FALSE,
     showTutorial |-> tutorial, attackStack |-> 0,
     timers |-> <<dealTimer(0)>>]

\* the callback of the timer that was started first
timerStep(s, seed) ==
    LET cl == s.timers[1]
        rest == [s EXCEPT !.timers = Tail(@)]
    IN  IF cl.kind = "deal" THEN dealInterval(s, 1)
        ELSE IF cl.kind = "ai" THEN performAITurn(rest, cl, seed)
        ELSE IF cl.kind = "play" THEN finishPlay(rest, cl)
        ELSE commitDraw(rest, cl)

\* a patient human: names the suit held most, plays the first card the page
\* enables, a Jack only when nothing else is enabled, and draws otherwise
humanStep(s, seed) ==
    LET enabled == SelectSeq(s.hands["south"], LAMBDA c : cardEnabled(s, c))
        plain == SelectSeq(enabled, LAMBDA c : c.rank # "J")
    IN  IF s.isSuitSelectionOpen
        THEN handleSuitSelect(s, bestSuitOf(s.hands["south"]))
        ELSE IF Len(plain) > 0 THEN handleCardClick(s, plain[1])
        ELSE IF Len(enabled) > 0 THEN handleCardClick(s, enabled[1])
        ELSE handleDeckClick(s, seed)

\* one step of an undisturbed game: pending callbacks run in the order they
\* were started, and the human acts only when none is pending
autoStep(s, seed) ==
    IF Len(s.timers) > 0 THEN Rendered(s, timerStep(s, seed))
    ELSE IF s.winner # Null \/ s.showTutorial \/ s.isMenuOpen THEN s
    ELSE Rendered(s, humanStep(s, seed))

RECURSIVE AutoPlay(_, _, _)
\* the undisturbed game after n steps; the steps are played half by half, each
\* half computed once before the next begins
AutoPlay(s, n, seed) ==
    IF n = 0 THEN s
    ELSE IF n = 1 THEN autoStep(s, seed)
    ELSE CHOOSE r \in {AutoPlay(t, n - (n \div 2), seed) :
                          t \in {AutoPlay(s, n \div 2, seed)}} : TRUE

\* positions of undisturbed games, each given by the shuffle of its deal and
\* the number of steps played.  In the first east's card is landing and the
\* human, to play next, holds a single Jack; in the second the human's draw
\* is landing and west, to play next, holds a single Jack; in the third
\* east's draw is landing and takes the last card of the deck; in the fourth
\* the human, to play, holds a single 8 of clubs that matches the top card by
\* rank while the active suit is spades; in the fifth the
\* event log has just reached its limit and west is about to play
Scenes ==
    <<[seed |-> 71, steps |-> 84],
      [seed |-> 29, steps |-> 87],
      [seed |-> 21, steps |-> 118],
      [seed |-> 42, steps |-> 114],
      [seed |-> 144, steps |-> 123]>>

\* a shuffle that leaves the Jack of spades as the start card, gives south
\* every other spade and Jack but two, and leaves those two at the bottom of
\* the deck: south is dealt positions 52, 48, .. 24 and draws positions 19,
\* 15, .. 3 if every player draws in turn
HoardShuffle ==
    LET wild == SelectSeq(createDeck, LAMBDA c :
                    (c.rank = "J") # (c.suit = "spades"))
        plain == SelectSeq(createDeck, LAMBDA c :
                     c.rank # "J" /\ c.suit # "spades")
        start == CHOOSE c \in Cards : c.rank = "J" /\ c.suit = "spades"
        souths == {i \in 1..52 : \/ i <= 2
                                 \/ i < 20 /\ i % 4 = 3
                                 \/ i > 20 /\ i % 4 = 0}
    IN  [i \in 1..52 |->
            IF i = 20 THEN start
            ELSE IF i \in souths
            THEN wild[Cardinality({j \in souths : j <= i})]
            ELSE plain[Cardinality({j \in (1..52) \ souths : j <= i /\ j # 20})]]

\* a hoarding human: draws at every turn, whatever the hand holds
hoardStep(s, seed) ==
    IF Len(s.timers) > 0 THEN Rendered(s, timerStep(s, seed))
    ELSE Rendered(s, handleDeckClick(s, seed))

RECURSIVE HoardPlay(_, _, _)
\* the game of the hoarding human after n steps, played half by half
HoardPlay(s, n, seed) ==
    IF n = 0 THEN s
    ELSE IF n = 1 THEN hoardStep(s, seed)
    ELSE CHOOSE r \in {HoardPlay(t, n - (n \div 2), seed) :
                          t \in {HoardPlay(s, n \div 2, seed)}} : TRUE

\* the hoarding human's game dealt from HoardShuffle after 70 steps: north's
\* draw is landing and takes the last card of the deck, east is next
HoardState ==
    CHOOSE r \in {HoardPlay(s, 70, 1) :
                     s \in {[Mounted(1, FALSE) EXCEPT !.deck = HoardShuffle]}} : TRUE

\* a restart pressed 16 ticks into the first deal, 39 ticks on: the interval
\* of the first deal has ended it (start card flipped, south to move) while
\* the interval of the restart is still dealing and will flip a start card
\* of its own
RestartedDeal ==
    CHOOSE r \in {AutoPlay(Rendered(s, startDeal(s, 3)), 39, 3) :
                     s \in {AutoPlay(Mounted(1, FALSE), 16, 1)}} : TRUE

SceneState(k) ==
    CHOOSE r \in {AutoPlay(s, Scenes[k].steps, Scenes[k].seed) :
                     s \in {Mounted(Scenes[k].seed, FALSE)}} : TRUE

\* the variables of the component hold the state s
Holds(s) ==
    /\ deck = s.deck
    /\ discardPile = s.discardPile
    /\ hands = s.hands
    /\ currentTurn = s.currentTurn
    /\ activeSuit = s.activeSuit
    /\ winner = s.winner
    /\ isSuitSelectionOpen = s.isSuitSelectionOpen
    /\ gameLog = s.gameLog
    /\ isDealing = s.isDealing
    /\ isAnimating = s.isAnimating
    /\ isMenuOpen = s.isMenuOpen
    /\ showTutorial = s.showTutorial
    /\ attackStack = s.attackStack
    /\ timers = s.timers

\* a run starts when the component has mounted (the tutorial shows unless it
\* was seen before), or in the middle of a game (one of Scenes, the hoarding
\* human's, or the deal that was restarted), from where no further restart
\* is followed
Init ==
    /\ \/ /\ \E seed \in 1..NumSeeds, tutorial \in BOOLEAN :
                 Holds(Mounted(seed, tutorial))
          /\ last = Did("mount", Null, Undefined, 0, 0)
          /\ deals = 1
       \/ /\ \/ \E k \in 1..Len(Scenes) : Holds(SceneState(k))
             \/ Holds(HoardState)
             \/ Holds(RestartedDeal)
          /\ last = Did("resume", Null, Undefined, 0, 0)
          /\ deals = MaxDeals
    /\ moves = 0
    /\ rush = 0
    /\ probe = NoProbe

\* a click of the user; one made while a timer is pending counts as rushed
Input ==
    IF Len(timers) > 0
    THEN rush < MaxRush /\ rush' = rush + 1
    ELSE rush' = rush

\* the user presses Restart or Play Again
NewGame ==
    /\ deals < MaxDeals
    /\ Input
    /\ restartReachable(State)
    /\ \E seed \in 1..NumSeeds : Becomes(startDeal(State, seed))
    /\ last' = Did("newgame", Null, Undefined, 0, 0)
    /\ deals' = deals + 1
    /\ UNCHANGED <<moves, probe>>

\* a dealing interval ticks
DealTick ==
    \E i \in 1..Len(timers) :
        /\ CanFire(i)
        /\ timers[i].kind = "deal"
        /\ Becomes(dealInterval(State, i))
        /\ last' = IF timers[i].dealIndex >= HAND_SIZE * 4
                   THEN Did("flip", Null, Top(deck), 0, 0)
                   ELSE Did("deal", PlayerOrder[(timers[i].dealIndex % 4) + 1],
                            Top(deck), 0, 0)
        /\ UNCHANGED <<moves, deals, rush, probe>>

\* the human clicks a card of their hand and the click is taken
ClickCard ==
    \E k \in 1..Len(hands["south"]) :
        LET card == hands["south"][k]
            r == handleCardClick(State, card)
        IN  /\ moves < MaxMoves
            /\ Input
            /\ cardEnabled(State, card)
            /\ r # State
            /\ Becomes(r)
            /\ last' = Did("click", "south", card, 0, 0)
            /\ moves' = moves + 1
            /\ UNCHANGED <<deals, probe>>

\* the human clicks the deck and the click is taken
ClickDeck ==
    \E seed \in 1..NumSeeds :
        LET r == handleDeckClick(State, seed)
            asked == drawCount(attackStack)
        IN  /\ moves < MaxMoves
            /\ Input
            /\ r # State
            /\ Becomes(r)
            /\ last' = IF Len(r.timers) > Len(timers)
                       THEN Did("drawstart", "south", Undefined, asked, 0)
                       ELSE Did("draw", "south", Undefined, asked, 0)
            /\ moves' = moves + 1
            /\ UNCHANGED <<deals, probe>>

\* the human picks a suit after a Jack
SelectSuit ==
    /\ suitButtonsReachable(State)
    /\ Input
    /\ \E suit \in Suits : Becomes(handleSuitSelect(State, suit))
    /\ last' = Did("suit", "south", Undefined, 0, 0)
    /\ UNCHANGED <<moves, deals, probe>>

\* the sleep of a performAITurn ends
AITurn ==
    \E i \in 1..Len(timers), seed \in 1..NumSeeds :
        LET cl == timers[i]
            r == performAITurn(Without(i), cl, seed)
            asked == drawCount(cl.attackStack)
        IN  /\ CanFire(i)
            /\ cl.kind = "ai"
            /\ moves < MaxMoves
            /\ Becomes(r)
            /\ last' = IF r = Without(i)
                       THEN Did("idle", cl.pid, Undefined, 0, 0)
                       ELSE IF Len(r.timers) < Len(timers)
                       THEN Did("draw", cl.pid, Undefined, asked, 0)
                       ELSE IF r.timers[Len(r.timers)].kind = "play"
                       THEN Did("choose", cl.pid, r.timers[Len(r.timers)].card, 0, 0)
                       ELSE Did("drawstart", cl.pid, Undefined, asked, 0)
            /\ moves' = moves + 1
            /\ UNCHANGED <<deals, rush, probe>>

\* a card animation ends and its caller goes on: the play or draw is applied
FinishAnimation ==
    \E i \in 1..Len(timers) :
        LET cl == timers[i]
        IN  /\ CanFire(i)
            /\ cl.kind \in {"play", "draw"}
            /\ Becomes(IF cl.kind = "play" THEN finishPlay(Without(i), cl)
                       ELSE commitDraw(Without(i), cl))
            /\ last' = IF cl.kind = "play"
                       THEN Did("play", cl.pid, cl.card, 0, 0)
                       ELSE Did("draw", cl.pid, Undefined,
                                drawCount(cl.attackStack), Len(cl.drawnCards))
            /\ UNCHANGED <<moves, deals, rush, probe>>

OpenTutorial ==
    /\ topBarReachable(State)
    /\ Input
    /\ Becomes([State EXCEPT !.showTutorial = TRUE])
    /\ UNCHANGED <<last, moves, deals, probe>>

CloseTutorial ==
    /\ showTutorial /\ ~ isMenuOpen
    /\ Becomes([State EXCEPT !.showTutorial = FALSE])
    /\ UNCHANGED <<last, moves, deals, rush, probe>>

OpenMenu ==
    /\ topBarReachable(State)
    /\ Input
    /\ Becomes([State EXCEPT !.isMenuOpen = TRUE])
    /\ UNCHANGED <<last, moves, deals, probe>>

CloseMenu ==
    /\ isMenuOpen
    /\ Becomes([State EXCEPT !.isMenuOpen = FALSE])
    /\ UNCHANGED <<last, moves, deals, rush, probe>>

Next ==
    \/ NewGame
    \/ DealTick
    \/ ClickCard
    \/ ClickDeck
    \/ SelectSuit
    \/ AITurn
    \/ FinishAnimation
    \/ OpenTutorial
    \/ CloseTutorial
    \/ OpenMenu
    \/ CloseMenu

Spec == Init /\ [][Next]_vars

-----------------------------------------------------------------------------
(* The game with its timers running to the end: the user still acts at most  *)
(* MaxMoves times, the non-human players as often as their turn comes, and  *)
(* every timer the browser holds fires in the end                           *)

\* the sleep of a performAITurn ends
AIActs ==
    \E i \in 1..Len(timers), seed \in 1..NumSeeds :
        LET cl == timers[i]
            r == performAITurn(Without(i), cl, seed)
            asked == drawCount(cl.attackStack)
        IN  /\ CanFire(i)
            /\ cl.kind = "ai"
            /\ Becomes(r)
            /\ last' = IF r = Without(i)
                       THEN Did("idle", cl.pid, Undefined, 0, 0)
                       ELSE IF Len(r.timers) < Len(timers)
                       THEN Did("draw", cl.pid, Undefined, asked, 0)
                       ELSE IF r.timers[Len(r.timers)].kind = "play"
                       THEN Did("choose", cl.pid, r.timers[Len(r.timers)].card, 0, 0)
                       ELSE Did("drawstart", cl.pid, Undefined, asked, 0)
            /\ UNCHANGED <<moves, deals, rush, probe>>

NextLive ==
    \/ NewGame
    \/ DealTick
    \/ ClickCard
    \/ ClickDeck
    \/ SelectSuit
    \/ AIActs
    \/ FinishAnimation
    \/ OpenTutorial
    \/ CloseTutorial
    \/ OpenMenu
    \/ CloseMenu

\* a timer of the browser fires
TimerFires == DealTick \/ AIActs \/ FinishAnimation

\* weak fairness of TimerFires, WF_vars(TimerFires), written out: a timer
\* can fire exactly while one is pending
TimersRun == []<>(Len(timers) = 0) \/ []<><<TimerFires>>_vars

SpecLive == Init /\ [][NextLive]_vars /\ TimersRun

-----------------------------------------------------------------------------
(* The pure helpers of src/utils.ts on their own: the arguments are drawn   *)
(* when the run starts, the calls are the steps                            *)

gameVars == <<deck, discardPile, hands, currentTurn, activeSuit, winner,
              isSuitSelectionOpen, gameLog, isDealing, isAnimating,
              isMenuOpen, showTutorial, attackStack, timers, last, moves,
              deals, rush>>

\* isValidMove(card, topCard, activeSuit, attackStack) for every card, every
\* top card or none, every suit and the stacks up to MaxStack;
\* getNextPlayer from every player
ProbeInputs ==
    {[NoProbe EXCEPT !.fn = "isValidMove", !.card = c, !.topCard = t,
                     !.suit = s, !.stack = k] :
        c \in Cards, t \in Cards \cup {Undefined}, s \in Suits,
        k \in 0..MaxStack}
    \cup {[NoProbe EXCEPT !.fn = "getNextPlayer", !.start = p] : p \in Players}

RECURSIVE PilesUpTo(_)
\* the arrays of at most n distinct cards over the first MaxPile cards of
\* createDeck
PilesUpTo(n) ==
    IF n = 0 THEN {<<>>}
    ELSE UNION {shorter \cup
                   {Append(x[1], x[2]) :
                       x \in {y \in shorter \X {createDeck[i] : i \in 1..MaxPile} :
                                 Len(y[1]) = n - 1 /\ y[2] \notin Range(y[1])}} :
                shorter \in {PilesUpTo(n - 1)}}

Piles == PilesUpTo(MaxPile)

\* a draw pile of at most MaxDeckLen cards and a discard pile, sharing no card
PilePairs ==
    {[deck |-> SubSeq(x[1], 1, x[2]), discard |-> SubSeq(x[1], x[2] + 1, Len(x[1]))] :
        x \in {y \in Piles \X (0..MaxDeckLen) : y[2] <= Len(y[1])}}

\* drawCardForPlayerLogic(currentDeck, currentDiscard) on every pair of piles
DrawCardInputs ==
    {[NoProbe EXCEPT !.fn = "drawCardForPlayerLogic", !.deck = x.deck,
                     !.discard = x.discard, !.seed = seed] :
        x \in PilePairs, seed \in 1..NumSeeds}

\* performDraw(pid, count) for every player on every pair of piles, the count
\* being the one the attack stacks up to MaxStack ask for
PerformDrawInputs ==
    {[NoProbe EXCEPT !.fn = "performDraw", !.deck = x.deck,
                     !.discard = x.discard, !.seed = seed, !.start = p,
                     !.stack = k] :
        x \in PilePairs, seed \in 1..NumSeeds, p \in Players,
        k \in 0..MaxStack}

\* a position over the reduced deck: it is pid's turn and every player holds
\* one card from outside the reduced deck
Reduced(d, dp, pid, stack) ==
    [deck |-> d, discardPile |-> dp,
     hands |-> [p \in Players |->
                  <<createDeck[Len(createDeck) + 1 - indexOf(PlayerOrder, p)]>>],
     currentTurn |-> pid,
     activeSuit |-> IF Len(dp) > 0 THEN Top(dp).suit ELSE "spades",
     winner |-> Null, isSuitSelectionOpen |-> FALSE, gameLog |-> <<>>,
     isDealing |-> FALSE, isAnimating |-> FALSE, isMenuOpen |-> FALSE,
     showTutorial |-> FALSE, attackStack |-> stack, timers |-> <<>>]

\* the cards the policy of performAITurn tells apart: an attack card, a plain
\* card and the wildcard, of every suit
PolicyCards == {c \in Cards : c.rank \in {"2", "7", "J"}}

RECURSIVE HandsUpTo(_)
\* the hands of at most n distinct cards of PolicyCards, in every order
HandsUpTo(n) ==
    IF n = 0 THEN {<<>>}
    ELSE UNION {shorter \cup
                   {Append(x[1], x[2]) :
                       x \in {y \in shorter \X PolicyCards :
                                 Len(y[1]) = n - 1 /\ y[2] \notin Range(y[1])}} :
                shorter \in {HandsUpTo(n - 1)}}

\* performAITurn for every non-human player, on every hand of at most MaxHand
\* cards, every top card not in the hand, every active suit and the attack
\* stacks up to MaxStack
PerformAITurnInputs ==
    {[NoProbe EXCEPT !.fn = "performAITurn", !.hand = x[1], !.topCard = x[2],
                     !.suit = s, !.stack = k, !.start = p, !.seed = 1] :
        x \in {y \in HandsUpTo(MaxHand) \X PolicyCards : y[2] \notin Range(y[1])},
        s \in Suits, k \in 0..MaxStack, p \in Players \ {"south"}}

\* a position in which it is pid's turn: pid holds hand, topCard lies on the
\* discard pile, the deck holds the four 3s and the other players one 4 each
PolicyPosition(hand, topCard, suit, stack, pid) ==
    [deck |-> SelectSeq(createDeck, LAMBDA c : c.rank = "3"),
     discardPile |-> <<topCard>>,
     hands |-> [p \in Players |->
                  IF p = pid THEN hand
                  ELSE <<SelectSeq(createDeck, LAMBDA c : c.rank = "4")
                             [indexOf(PlayerOrder, p)]>>],
     currentTurn |-> pid, activeSuit |-> suit,
     winner |-> Null, isSuitSelectionOpen |-> FALSE, gameLog |-> <<>>,
     isDealing |-> FALSE, isAnimating |-> FALSE, isMenuOpen |-> FALSE,
     showTutorial |-> FALSE, attackStack |-> stack, timers |-> <<>>]

InitPure ==
    /\ \E s \in {Mounted(1, FALSE)} : Holds(s)
    /\ last = Did("mount", Null, Undefined, 0, 0)
    /\ moves = 0
    /\ deals = 1
    /\ rush = 0
    /\ \/ probe \in ProbeInputs
       \/ probe \in DrawCardInputs
       \/ probe \in PerformDrawInputs
       \/ probe \in PerformAITurnInputs

CallIsValidMove ==
    /\ probe.fn = "isValidMove"
    /\ probe.result = <<>>
    /\ probe' = [probe EXCEPT !.result =
                     <<isValidMove(probe.card, probe.topCard, probe.suit,
                                   probe.stack)>>]
    /\ UNCHANGED gameVars

\* the next call starts from the player the previous one returned
CallGetNextPlayer ==
    /\ probe.fn = "getNextPlayer"
    /\ Len(probe.path) < MaxAdvance
    /\ \E skip \in BOOLEAN :
          LET from == IF Len(probe.path) = 0 THEN probe.start
                      ELSE probe.path[Len(probe.path)].to
          IN  probe' = [probe EXCEPT !.path =
                           Append(@, [skip |-> skip, from |-> from,
                                      to |-> getNextPlayer(from, skip)])]
    /\ UNCHANGED gameVars

CallDrawCardForPlayerLogic ==
    /\ probe.fn = "drawCardForPlayerLogic"
    /\ probe.result = <<>>
    /\ probe' = [probe EXCEPT !.result =
                     <<drawCardForPlayerLogic(probe.deck, probe.discard,
                                              probe.seed)>>]
    /\ UNCHANGED gameVars

\* performDraw up to its await; result holds the position before and after
CallPerformDraw ==
    /\ probe.fn = "performDraw"
    /\ probe.result = <<>>
    /\ \E s \in {Reduced(probe.deck, probe.discard, probe.start, probe.stack)} :
          probe' = [probe EXCEPT !.result =
                       <<s, performDraw(s, probe.start, drawCount(probe.stack),
                                        s.deck, s.discardPile, s.attackStack,
                                        probe.seed)>>]
    /\ UNCHANGED gameVars

\* the animation performDraw awaited ends and its commit runs
ResumePerformDraw ==
    /\ probe.fn = "performDraw"
    /\ Len(probe.result) = 2
    /\ Len(probe.result[2].timers) > 0
    /\ probe' = [probe EXCEPT !.result =
                     Append(@, commitDraw([probe.result[2] EXCEPT !.timers = <<>>],
                                          probe.result[2].timers[1]))]
    /\ UNCHANGED gameVars

\* performAITurn after its sleep, up to its next await, in the render the
\* effect scheduled it in; result holds the position before and after
CallPerformAITurn ==
    /\ probe.fn = "performAITurn"
    /\ probe.result = <<>>
    /\ \E s \in {PolicyPosition(probe.hand, probe.topCard, probe.suit,
                                 probe.stack, probe.start)} :
          probe' = [probe EXCEPT !.result =
                       <<s, performAITurn(s, aiTimer(s), probe.seed)>>]
    /\ UNCHANGED gameVars

NextPure ==
    \/ CallIsValidMove
    \/ CallGetNextPlayer
    \/ CallDrawCardForPlayerLogic
    \/ CallPerformDraw
    \/ ResumePerformDraw
    \/ CallPerformAITurn

SpecPure == InitPure /\ [][NextPure]_vars

-----------------------------------------------------------------------------
(* Properties *)

\* the fixed cyclic order south, west, north, east, as a successor table
After ==
    [p \in Players |->
        IF p = "south" THEN "west"
        ELSE IF p = "west" THEN "north"
        ELSE IF p = "north" THEN "east"
        ELSE "south"]

\* C3: a card click leaves the whole state unchanged when it is not south's
\* turn, when the card is not legal on the current top card, active suit and
\* attack stack, when a winner is set or when a suit choice is pending; a
\* deck click leaves it unchanged when it is not south's turn, when a winner
\* is set or when a suit choice is pending
RejectedIntentsChangeNothing ==
    LET refused == currentTurn # "south" \/ winner # Null \/ isSuitSelectionOpen
    IN  /\ \A card \in Cards :
              (refused \/ ~ isValidMove(card, Top(discardPile), activeSuit,
                                        attackStack))
                  => handleCardClick(State, card) = State
        /\ \A seed \in 1..NumSeeds :
              refused => handleDeckClick(State, seed) = State

\* an AI player's turn with nothing else in the way of a click: no animation,
\* no overlay, the game dealt and not won, and the human holds a legal card
RejectedIntentsReached ==
    /\ currentTurn # "south" /\ winner = Null /\ ~ isDealing
    /\ ~ isAnimating /\ ~ showTutorial /\ ~ isMenuOpen
    /\ \E k \in 1..Len(hands["south"]) :
          isValidMove(hands["south"][k], Top(discardPile), activeSuit,
                      attackStack)

\* C4: under an attack (attackStack > 0) and with a top card present,
\* isValidMove is true exactly for the cards of rank 2, whatever the active
\* suit and the top card
AttackAllowsOnlyTwos ==
    (probe.fn = "isValidMove" /\ probe.result # <<>>
        /\ probe.topCard # Undefined /\ probe.stack > 0)
    => (probe.result[1] <=> probe.card.rank = "2")

\* a Jack of the active suit was refused under an attack
AttackRefusedJack ==
    /\ probe.fn = "isValidMove" /\ probe.result = <<FALSE>>
    /\ probe.topCard # Undefined /\ probe.stack > 0
    /\ probe.card.rank = "J" /\ probe.card.suit = probe.suit

\* C5: without an attack (attackStack = 0) isValidMove is false when there
\* is no top card, and otherwise true exactly for a Jack, a card of the
\* active suit or a card of the top card's rank; the top card's own suit
\* plays no part
PlainLegality ==
    (probe.fn = "isValidMove" /\ probe.result # <<>> /\ probe.stack = 0)
    => probe.result[1] =
          (/\ probe.topCard # Undefined
           /\ \/ probe.card.rank = "J"
              \/ probe.card.suit = probe.suit
              \/ probe.card.rank = probe.topCard.rank)

\* a card of the top card's suit was refused because another suit is active
PlainRefusedTopSuit ==
    /\ probe.fn = "isValidMove" /\ probe.result = <<FALSE>>
    /\ probe.stack = 0 /\ probe.topCard # Undefined
    /\ probe.card.suit = probe.topCard.suit
    /\ probe.card.suit # probe.suit

\* C6: getNextPlayer without skip returns the player one position on in the
\* order south, west, north, east, with skip the player two positions on;
\* four calls in a row without skip, and two in a row with skip, return the
\* player the first of them started from
TurnCycle ==
    probe.fn = "getNextPlayer" =>
        LET path == probe.path
        IN  /\ \A i \in 1..Len(path) :
                  path[i].to = IF path[i].skip THEN After[After[path[i].from]]
                               ELSE After[path[i].from]
            /\ \A i \in 1..(Len(path) - 3) :
                  (\A k \in i..(i + 3) : ~ path[k].skip)
                      => path[i + 3].to = path[i].from
            /\ \A i \in 1..(Len(path) - 1) :
                  (path[i].skip /\ path[i + 1].skip)
                      => path[i + 1].to = path[i].from

\* four calls without skip went round the table from east
TurnCycleReached ==
    /\ probe.fn = "getNextPlayer" /\ probe.start = "east"
    /\ Len(probe.path) = 4
    /\ \A k \in 1..4 : ~ probe.path[k].skip
    /\ probe.path[4].to = "east"

\* the step is one of the game (a handler, a timer callback or a
\* continuation, never the opening or closing of an overlay) and it was `op`
Stepped(op) ==
    /\ last'.op = op
    /\ showTutorial' = showTutorial
    /\ isMenuOpen' = isMenuOpen

\* C1: in every state the deck, the four hands and the discard pile hold
\* 52 cards together and no card id twice
DeckIntegrity ==
    LET all == AllCards(State)
    IN  /\ Len(all) = 52
        /\ \A i, j \in 1..Len(all) : i < j => all[i].id # all[j].id

\* C2: a play that empties a hand sets winner to its player in the same
\* step, and while a winner is set no play, draw or suit choice changes the
\* deck, the discard pile, the hands, currentTurn, activeSuit or attackStack
WinIsFinal ==
    [][/\ (Stepped("play") /\ Len(hands[last'.pid]) > 0
                           /\ Len(hands'[last'.pid]) = 0)
           => winner' = last'.pid
       /\ (winner # Null
              /\ \E op \in {"click", "choose", "play", "drawstart", "draw",
                             "idle", "suit"} : Stepped(op))
           => UNCHANGED <<deck, discardPile, hands, currentTurn, activeSuit,
                          attackStack>>]_vars

\* C7: a draw by player P adds exactly K cards to P's hand, K the attack
\* stack if it is positive and 1 otherwise; afterwards attackStack is 0, the
\* turn is with the player one position after P and no other hand changed
DrawIsExact ==
    [][Stepped("draw") =>
          LET P == last'.pid
              K == IF attackStack > 0 THEN attackStack ELSE 1
          IN  /\ Len(hands'[P]) = Len(hands[P]) + K
              /\ SubSeq(hands'[P], 1, Len(hands[P])) = hands[P]
              /\ attackStack' = 0
              /\ currentTurn' = After[P]
              /\ \A q \in Players \ {P} : hands'[q] = hands[q]]_vars

\* C8: when a player whose whole hand is one Jack plays it with attackStack
\* 0, that player is the winner after the step, no suit choice opens, the
\* active suit stays and the turn does not move
LoneJackWins ==
    [][(Stepped("play") /\ last'.card.rank = "J"
          /\ hands[last'.pid] = <<last'.card>> /\ attackStack = 0)
       => /\ winner' = last'.pid
          /\ ~ isSuitSelectionOpen /\ ~ isSuitSelectionOpen'
          /\ activeSuit' = activeSuit
          /\ currentTurn' = currentTurn
          /\ attackStack' = 0]_vars

\* the human has just won by playing the Jack that was their whole hand
LoneJackWon ==
    /\ last.op = "play" /\ last.pid = "south" /\ last.card.rank = "J"
    /\ winner = "south" /\ Len(hands["south"]) = 0
    /\ Top(discardPile) = last.card
    /\ ~ isSuitSelectionOpen /\ currentTurn = "south"

\* C9: when the dealing of a game completes every hand holds 8 cards, the
\* deck 19 and the discard pile 1, it is south's turn, there is no winner
\* and the active suit is the suit of the flipped card
DealIsFair ==
    last.op = "flip" =>
        /\ \A p \in Players : Len(hands[p]) = 8
        /\ Len(deck) = 19
        /\ Len(discardPile) = 1
        /\ currentTurn = "south"
        /\ winner = Null
        /\ activeSuit = Top(discardPile).suit

\* the first turn of a game that started on a 2: nothing has been applied
\* since the card was flipped
FirstTurnUnderAttack ==
    /\ ~ isDealing /\ currentTurn = "south" /\ attackStack = 2
    /\ gameLog = << <<"Game starts with a 2">> >>

\* C10: when dealing completes attackStack is 2 if the flipped card is a 2
\* and 0 otherwise; when it is 2, what south gets applied in that first turn
\* is the play of a 2 or a draw of exactly 2 cards
StartOnTwo ==
    [][/\ Stepped("flip") =>
              attackStack' = IF Top(discardPile').rank = "2" THEN 2 ELSE 0
       /\ (FirstTurnUnderAttack /\ last'.pid = "south"
              /\ (Stepped("play") \/ Stepped("draw")))
           => \/ last'.op = "play" /\ last'.card.rank = "2"
              \/ /\ last'.op = "draw"
                 /\ Len(hands'["south"]) = Len(hands["south"]) + 2]_vars

\* the position a performDraw probe ended in: after the commit, which follows
\* the animation when a card was drawn and runs at once when none was
DrawOutcome ==
    IF Len(probe.result[2].timers) > 0 THEN probe.result[3] ELSE probe.result[2]

\* the performDraw probe has run to its end
DrawProbeDone ==
    /\ probe.fn = "performDraw"
    /\ Len(probe.result) >= 2
    /\ Len(probe.result[2].timers) > 0 => Len(probe.result) = 3

\* C11: a draw from an empty deck with more than one discard card reshuffles:
\* it returns as discard pile the single card that was on top before, as new
\* deck and drawn card together exactly the other discard cards, each once;
\* after a performDraw that reshuffled, the discard pile is that single card
\* and the active suit is what it was
ReshuffleKeepsTop ==
    /\ (probe.fn = "drawCardForPlayerLogic" /\ probe.result # <<>>
           /\ Len(probe.deck) = 0 /\ Len(probe.discard) > 1)
       => LET res == probe.result[1]
          IN  /\ res.reshuffled
              /\ res.newDiscard = <<Top(probe.discard)>>
              /\ res.card # Undefined
              /\ Len(res.newDeck) + 1 = Len(probe.discard) - 1
              /\ Range(res.newDeck) \cup {res.card}
                    = Range(Popped(probe.discard))
    /\ (DrawProbeDone /\ drawCount(probe.stack) > Len(probe.deck)
           /\ Len(probe.discard) > 1)
       => /\ DrawOutcome.discardPile = <<Top(probe.discard)>>
          /\ DrawOutcome.activeSuit = probe.result[1].activeSuit
          /\ Range(DrawOutcome.deck)
                \cup Range(DrawOutcome.hands[probe.start])
                = Range(probe.deck) \cup Range(Popped(probe.discard))
                    \cup Range(probe.result[1].hands[probe.start])

\* a pile of five discards was reshuffled by one draw from an empty deck
ReshuffleReached ==
    /\ probe.fn = "drawCardForPlayerLogic" /\ probe.result # <<>>
    /\ Len(probe.deck) = 0 /\ Len(probe.discard) = 5
    /\ probe.result[1].reshuffled
    /\ Len(probe.result[1].newDeck) = 3

\* the hand of the drawing player before and after a performDraw probe
HandBefore == probe.result[1].hands[probe.start]

HandAfter == DrawOutcome.hands[probe.start]

\* C12 as the scenario is worded: with one card left in the deck and five
\* discards, a draw reshuffles, leaves the single former top card as discard
\* pile and succeeds
LastCardDrawReshuffles ==
    (DrawProbeDone /\ Len(probe.deck) = 1 /\ Len(probe.discard) = 5)
    => /\ DrawOutcome.discardPile = <<Top(probe.discard)>>
       /\ Len(HandAfter) = Len(HandBefore) + drawCount(probe.stack)

\* C12: with one card left in the deck and five discards, a draw of one card
\* takes the deck's card and reshuffles nothing: the deck is then empty and
\* the discard pile keeps its five cards.  A draw of two cards takes the
\* deck's card and then reshuffles: the second card comes from the four
\* non-top discards, three of which form the new deck, and the discard pile
\* is the single former top card
LastCardIsDrawnFirst ==
    /\ (probe.fn = "drawCardForPlayerLogic" /\ probe.result # <<>>
           /\ Len(probe.deck) = 1 /\ Len(probe.discard) = 5)
       => /\ ~ probe.result[1].reshuffled
          /\ probe.result[1].card = probe.deck[1]
          /\ probe.result[1].newDeck = <<>>
          /\ probe.result[1].newDiscard = probe.discard
    /\ (DrawProbeDone /\ Len(probe.deck) = 1 /\ Len(probe.discard) = 5)
       => IF drawCount(probe.stack) = 1
          THEN /\ HandAfter = HandBefore \o probe.deck
               /\ DrawOutcome.deck = <<>>
               /\ DrawOutcome.discardPile = probe.discard
          ELSE /\ Len(HandAfter) = Len(HandBefore) + 2
               /\ HandAfter[Len(HandBefore) + 1] = probe.deck[1]
               /\ HandAfter[Len(HandAfter)] \in Range(Popped(probe.discard))
               /\ Len(DrawOutcome.deck) = 3
               /\ Range(DrawOutcome.deck) \cup {HandAfter[Len(HandAfter)]}
                     = Range(Popped(probe.discard))
               /\ DrawOutcome.discardPile = <<Top(probe.discard)>>

\* a draw of one card took the last card of the deck and left the five
\* discards where they were
LastCardDrawn ==
    /\ DrawProbeDone /\ Len(probe.deck) = 1 /\ Len(probe.discard) = 5
    /\ drawCount(probe.stack) = 1
    /\ Len(HandAfter) = Len(HandBefore) + 1
    /\ DrawOutcome.deck = <<>>
    /\ Len(DrawOutcome.discardPile) = 5

\* the cards a draw can get from the piles of the probe: the deck, then the
\* discards below the top one
Supply ==
    Len(probe.deck)
        + (IF Len(probe.discard) > 1 THEN Len(probe.discard) - 1 ELSE 0)

\* C13: drawCardForPlayerLogic on an empty deck and at most one discard
\* returns no card, both piles as they were and reshuffled = false; a
\* performDraw of N cards adds to the end of the player's hand the cards the
\* piles could supply, N at most, no failed draw among them, leaves the
\* other hands alone and keeps every card of deck, hands and discard pile
\* exactly once
ExhaustedDrawYieldsNothing ==
    /\ (probe.fn = "drawCardForPlayerLogic" /\ probe.result # <<>>
           /\ Len(probe.deck) = 0 /\ Len(probe.discard) <= 1)
       => /\ probe.result[1].card = Undefined
          /\ probe.result[1].newDeck = probe.deck
          /\ probe.result[1].newDiscard = probe.discard
          /\ ~ probe.result[1].reshuffled
    /\ DrawProbeDone
       => LET N == drawCount(probe.stack)
              got == IF N <= Supply THEN N ELSE Supply
          IN  /\ Len(HandAfter) = Len(HandBefore) + got
              /\ SubSeq(HandAfter, 1, Len(HandBefore)) = HandBefore
              /\ \A i \in 1..Len(HandAfter) : HandAfter[i] # Undefined
              /\ \A q \in Players \ {probe.start} :
                    DrawOutcome.hands[q] = probe.result[1].hands[q]
              /\ Len(AllCards(DrawOutcome)) = Len(AllCards(probe.result[1]))
              /\ Range(AllCards(DrawOutcome)) = Range(AllCards(probe.result[1]))

\* a draw of two cards got the only card there was and stopped
DrawStoppedShort ==
    /\ DrawProbeDone /\ drawCount(probe.stack) = 2
    /\ Len(probe.deck) = 1 /\ Len(probe.discard) = 1
    /\ HandAfter = HandBefore \o probe.deck
    /\ DrawOutcome.deck = <<>>
    /\ DrawOutcome.discardPile = probe.discard

\* the deal intervals that are running
DealsRunning == {i \in 1..Len(timers) : timers[i].kind = "deal"}

\* C14: a game started by the new-game command owes nothing to the game
\* before it.  When its deal, the only one running, completes, there is no
\* winner, no suit choice is open and attackStack and activeSuit are those of
\* the flipped card; and while its cards are being dealt no play and no suit
\* choice, which can only have been started in the game before, changes the
\* deck, the hands, the discard pile, currentTurn, activeSuit or attackStack
RestartDiscardsGame ==
    [][/\ (Stepped("flip") /\ deals > 1 /\ Cardinality(DealsRunning) = 1)
           => /\ winner' = Null
              /\ ~ isSuitSelectionOpen'
              /\ activeSuit' = Top(discardPile').suit
              /\ attackStack' = IF Top(discardPile').rank = "2" THEN 2 ELSE 0
       /\ (deals > 1 /\ isDealing /\ (Stepped("play") \/ Stepped("suit")))
           => UNCHANGED <<deck, discardPile, hands, currentTurn, activeSuit,
                          attackStack>>]_vars

\* the plays and draws that have started and not yet committed: a
\* performAITurn in its sleep, a card or a draw in its animation
InFlight == {i \in 1..Len(timers) : timers[i].kind \in {"ai", "play", "draw"}}

\* C15: in every state at most one play or draw has started and not yet
\* committed
OneMutationInFlight == Cardinality(InFlight) <= 1

\* C16: in every state attackStack is a non-negative multiple of 2
AttackStackIsEven == attackStack >= 0 /\ attackStack % 2 = 0

\* a 2 was played onto a 2: the stack stands at 4
AttackStacked ==
    /\ last.op = "play" /\ last.card.rank = "2"
    /\ attackStack = 4

\* C17: in every state with a card on the discard pile and no suit choice
\* pending, the active suit is the suit of the top card unless that card is
\* a Jack; the state after a winning play is no exception
ActiveSuitFollowsTop ==
    (Len(discardPile) > 0 /\ ~ isSuitSelectionOpen /\ Top(discardPile).rank # "J")
    => activeSuit = Top(discardPile).suit


\* C18: whenever winner is set, the winner's hand is empty and every other
\* hand holds a card; and outside dealing a player whose hand is empty is the
\* winner
WinnerHoldsEmptyHand ==
    /\ winner # Null =>
          /\ Len(hands[winner]) = 0
          /\ \A p \in Players \ {winner} : Len(hands[p]) > 0
    /\ ~ isDealing =>
          \A p \in Players : Len(hands[p]) = 0 => winner = p


\* old is an initial segment of new
IsPrefix(old, new) ==
    Len(old) <= Len(new) /\ SubSeq(new, 1, Len(old)) = old

\* new is old with k entries added at the end and then cut from the front
\* to the last LogLimit entries
Rolled(old, new, k) ==
    /\ k <= Len(new)
    /\ Len(new) = IF Len(old) + k > LogLimit THEN LogLimit ELSE Len(old) + k
    /\ \A i \in 1..(Len(new) - k) : new[i] = old[Len(old) - (Len(new) - k) + i]

\* C19 as stated: within one game every step leaves the entries already
\* logged in place and only adds entries at the end
LogAppendOnly ==
    [][last'.op # "newgame" => IsPrefix(gameLog, gameLog')]_vars

\* C19: within one game every step only adds entries at the end of the event
\* log and leaves the entries kept in their order and unaltered; the log
\* holds the last LogLimit entries, the oldest leaving as a new one arrives
LogKeepsLatest ==
    [][last'.op # "newgame" =>
          \E k \in 0..MaxLogged : Rolled(gameLog, gameLog', k)]_vars

\* the entry that opened the game has left a full log
LogRolledOver ==
    /\ Len(gameLog) = LogLimit
    /\ gameLog[1][1] \notin {"Game Started", "Game starts with a 2"}


\* the player k seats after p in the cyclic order
Seat(p, k) == PlayerOrder[((indexOf(PlayerOrder, p) - 1 + k) % 4) + 1]

\* the step lands an Ace that was not its player's last card
AceLanded ==
    /\ last'.op = "play"
    /\ last'.card.rank = "A"
    /\ Len(hands'[last'.pid]) > 0

\* C20: when a player plays an Ace that is not their last card, the turn
\* passes to the player two seats on, the player in between keeps their hand
\* and does not get the turn, the active suit becomes the Ace's suit and the
\* attack stack stays as it was
AceSkipsNext ==
    [][AceLanded =>
          /\ currentTurn' = Seat(last'.pid, 2)
          /\ hands'[Seat(last'.pid, 1)] = hands[Seat(last'.pid, 1)]
          /\ activeSuit' = last'.card.suit
          /\ attackStack' = attackStack]_vars

\* an Ace has landed and its player still holds cards
AceSkipped ==
    /\ last.op = "play" /\ last.card.rank = "A"
    /\ Len(hands[last.pid]) > 0
    /\ currentTurn = Seat(last.pid, 2)


\* the step lands a 2 that was not its player's last card
TwoLanded ==
    /\ Stepped("play")
    /\ last'.card.rank = "2"
    /\ Len(hands'[last'.pid]) > 0

\* C21: when a player plays a 2 that is not their last card, the attack
\* stack grows by exactly 2, the active suit becomes the suit of the 2, and
\* the turn passes to the next player, for whom only a 2 is a legal card and
\* whose draw is of the whole stack
TwoAttacksNext ==
    [][TwoLanded =>
          /\ attackStack' = attackStack + 2
          /\ activeSuit' = last'.card.suit
          /\ currentTurn' = Seat(last'.pid, 1)
          /\ \A i \in 1..Len(hands'[currentTurn']) :
                isValidMove(hands'[currentTurn'][i], Top(discardPile'),
                            activeSuit', attackStack')
                => hands'[currentTurn'][i].rank = "2"
          /\ drawCount(attackStack') = attackStack']_vars

\* a 2 has landed on a standing attack and its player still holds cards
TwoStacked ==
    /\ last.op = "play" /\ last.card.rank = "2"
    /\ Len(hands[last.pid]) > 0
    /\ attackStack = 4
    /\ currentTurn = Seat(last.pid, 1)


\* the step lands a card that is no Ace, 2 or Jack, was not its player's
\* last card and is legal on the piles it lands on
PlainLanded ==
    /\ Stepped("play")
    /\ last'.card.rank \notin {"A", "2", "J"}
    /\ Len(hands'[last'.pid]) > 0
    /\ isValidMove(last'.card, Top(discardPile), activeSuit, attackStack)

\* C22: when a player plays a card that is no Ace, 2 or Jack and is not
\* their last card, the active suit becomes the suit of that card, the turn
\* passes to the next player and the attack stack stays at 0
PlainPlayPassesTurn ==
    [][PlainLanded =>
          /\ activeSuit' = last'.card.suit
          /\ currentTurn' = Seat(last'.pid, 1)
          /\ attackStack = 0
          /\ attackStack' = 0]_vars

\* a card played by rank match has landed: it changed the active suit
PlainPlayChangedSuit ==
    /\ last.op = "play" /\ last.card.rank \notin {"A", "2", "J"}
    /\ Len(hands[last.pid]) > 0
    /\ Len(discardPile) > 1
    /\ discardPile[Len(discardPile) - 1].rank = last.card.rank
    /\ discardPile[Len(discardPile) - 1].suit # last.card.suit
    /\ activeSuit = last.card.suit
    /\ currentTurn = Seat(last.pid, 1)


\* the step lands a Jack of the human that was not their last card
HumanJackLanded ==
    /\ Stepped("play")
    /\ last'.pid = "south"
    /\ last'.card.rank = "J"
    /\ Len(hands'["south"]) > 0

\* C23: a Jack of the human that is not their last card opens the suit
\* choice, leaving the turn with south and the active suit as it was; while
\* the choice is open no play and no draw is applied; the choice sets the
\* active suit, closes the choice and passes the turn to west with the attack
\* stack unchanged; and the choice is open in no other situation: south is
\* to move, their Jack is the top card, no deal is running and nobody has won
SuitChoiceProtocol ==
    /\ [][HumanJackLanded =>
             /\ isSuitSelectionOpen'
             /\ currentTurn' = "south"
             /\ activeSuit' = activeSuit]_vars
    /\ [][(isSuitSelectionOpen /\ (Stepped("play") \/ Stepped("draw")))
             => FALSE]_vars
    /\ [][Stepped("suit") =>
             /\ activeSuit' \in Suits
             /\ ~ isSuitSelectionOpen'
             /\ currentTurn' = "west"
             /\ attackStack' = attackStack]_vars
    /\ [](isSuitSelectionOpen =>
             /\ currentTurn = "south"
             /\ ~ isDealing
             /\ winner = Null
             /\ Len(discardPile) > 0
             /\ Top(discardPile).rank = "J")


\* the number of cards of suit x in hand
Held(hand, x) == Cardinality({i \in 1..Len(hand) : hand[i].suit = x})

\* x is the suit held most in hand, the earlier suit of hearts, diamonds,
\* clubs, spades winning a tie
IsMostHeld(hand, x) ==
    \E i \in 1..4 :
        /\ SUITS[i] = x
        /\ \A k \in 1..4 : Held(hand, SUITS[k]) <= Held(hand, x)
        /\ \A k \in 1..(i - 1) : Held(hand, SUITS[k]) # Held(hand, x)

\* the step lands a Jack of a non-human player that was not its last card
AIJackLanded ==
    /\ Stepped("play")
    /\ last'.pid # "south"
    /\ last'.card.rank = "J"
    /\ Len(hands'[last'.pid]) > 0

\* C24: when a non-human player plays a Jack that is not its last card, the
\* active suit becomes the suit it holds most after the Jack has left its
\* hand, ties going to the earlier of hearts, diamonds, clubs, spades; the
\* turn passes to the next player and the attack stack is unchanged
AIJackNamesBestSuit ==
    [][AIJackLanded =>
          /\ IsMostHeld(hands'[last'.pid], activeSuit')
          /\ currentTurn' = Seat(last'.pid, 1)
          /\ attackStack' = attackStack]_vars

\* a non-human player's Jack has landed and named a suit other than its own,
\* one of two suits it holds equally often
AIJackChoseOnTie ==
    /\ last.op = "play" /\ last.pid # "south" /\ last.card.rank = "J"
    /\ Len(hands[last.pid]) > 0
    /\ activeSuit # last.card.suit
    /\ \E x \in Suits \ {activeSuit} :
          Held(hands[last.pid], x) = Held(hands[last.pid], activeSuit)
    /\ currentTurn = Seat(last.pid, 1)


\* the policy probe has run
PolicyDone == probe.fn = "performAITurn" /\ Len(probe.result) = 2

\* the cards of the probed hand that isValidMove accepts, in hand order
LegalCards ==
    SelectSeq(probe.hand,
              LAMBDA c : isValidMove(c, probe.topCard, probe.suit, probe.stack))

\* performAITurn started the animation of a play; the card it chose
PolicyPlays ==
    /\ Len(probe.result[2].timers) = 1
    /\ probe.result[2].timers[1].kind = "play"

PolicyCard == probe.result[2].timers[1].card

\* card c is the choice the priorities make among the cards of seq: a card
\* of the active suit if seq holds one, else a card of the top card's rank
\* if seq holds one, else any card of seq
Preferred(c, seq) ==
    /\ c \in Range(seq)
    /\ (\E d \in Range(seq) : d.suit = probe.suit) => c.suit = probe.suit
    /\ ((\A d \in Range(seq) : d.suit # probe.suit)
         /\ (\E d \in Range(seq) : d.rank = probe.topCard.rank))
        => c.rank = probe.topCard.rank

\* C25 as stated: with a legal card in hand and no attack standing, the
\* non-human player plays a legal card of the active suit if it holds one,
\* else a legal card of the top card's rank if it holds one, else some legal
\* card; under attack it plays the first 2 of its hand
PolicyPrefersSuitThenRank ==
    (PolicyDone /\ Len(LegalCards) > 0) =>
        /\ PolicyPlays
        /\ IF probe.stack = 0
           THEN Preferred(PolicyCard, LegalCards)
           ELSE PolicyCard = SelectSeq(probe.hand, LAMBDA c : c.rank = "2")[1]

\* C25: the priorities of the non-human player hold among its legal cards
\* that are no Jacks (active suit, else the top card's rank, else any); it
\* plays a Jack, the first of its hand, only when it has no other legal
\* card; under attack it plays the first 2 of its hand
PolicyHoldsBackJacks ==
    (PolicyDone /\ Len(LegalCards) > 0) =>
        /\ PolicyPlays
        /\ IF probe.stack > 0
           THEN PolicyCard = SelectSeq(probe.hand, LAMBDA c : c.rank = "2")[1]
           ELSE IF \E d \in Range(LegalCards) : d.rank # "J"
           THEN Preferred(PolicyCard,
                          SelectSeq(LegalCards, LAMBDA c : c.rank # "J"))
           ELSE PolicyCard = LegalCards[1]

\* the player held a legal Jack of the active suit and played a card of
\* another suit that matches the top card by rank
PolicyKeptJack ==
    /\ PolicyDone /\ probe.stack = 0 /\ PolicyPlays
    /\ \E d \in Range(LegalCards) : d.rank = "J" /\ d.suit = probe.suit
    /\ PolicyCard.suit # probe.suit
    /\ PolicyCard.rank = probe.topCard.rank


\* player p holds a card that isValidMove accepts in the current state
HoldsLegal(p) ==
    \E i \in 1..Len(hands[p]) :
        isValidMove(hands[p][i], Top(discardPile), activeSuit, attackStack)

\* the step is a non-human player's decision to draw
AIDecidedDraw ==
    /\ last'.pid \notin {Null, "south"}
    /\ \/ Stepped("drawstart")
       \/ Stepped("draw") /\ last'.count = 0

\* the step is a non-human player's decision to play a card
AIDecidedPlay == Stepped("choose")

\* C26: a non-human player decides to draw exactly when no card of its hand
\* is legal for the current top card, active suit and attack stack, and then
\* asks for the attack stack, or for one card when no attack stands
AIDrawsOnlyWhenBlocked ==
    [][/\ (AIDecidedDraw =>
              /\ ~ HoldsLegal(last'.pid)
              /\ last'.asked = (IF attackStack > 0 THEN attackStack ELSE 1))
         /\ (AIDecidedPlay => HoldsLegal(last'.pid))]_vars


\* the step applies the action of a non-human player: its card lands or its
\* draw is committed
AIApplied ==
    /\ Stepped("play") \/ Stepped("draw")
    /\ last'.pid \notin {Null, "south"}

\* C27: every action of a non-human player is applied while it is that
\* player's turn, and once it is applied nothing further of that player is
\* pending: one action per turn, also when the tutorial is opened and closed
\* during the thinking delay
OneActionPerAITurn ==
    [][AIApplied =>
          /\ currentTurn = last'.pid
          /\ \A k \in 1..Len(timers') : timers'[k].pid # last'.pid]_vars


\* it is non-human player p's turn in a running game with the tutorial closed
AIToMove(p) ==
    /\ currentTurn = p
    /\ ~ isDealing
    /\ winner = Null
    /\ ~ showTutorial

\* C28: whenever it is a non-human player's turn, the deal is over, nobody
\* has won and the tutorial is closed, the turn passes on or the game ends
\* in the end, without any input of the user
AITurnsEnd ==
    \A p \in Players \ {"south"} :
        AIToMove(p) ~> (currentTurn # p \/ winner # Null)

\* C28, as a property of single states: a non-human player who is to move
\* has a timer pending that will act for it; with none pending nothing
\* happens until the user acts, and the turn never ends by itself
AITurnIsDriven ==
    \A p \in Players \ {"south"} : AIToMove(p) => Len(timers) > 0

\* C29: every draw obtains all the cards it asked for; none is attempted with
\* the deck empty and at most one card on the discard pile, so that the
\* outcome without a card never occurs
DrawsAreFull ==
    last.op = "draw" => last.count = last.asked

\* C30: a card that a play puts on the discard pile was, right before the
\* play is applied, in the hand of the player who plays it, that player was
\* the one to move, and the card was legal on the top card, active suit and
\* attack stack of that state
PlaysAreValidWhenApplied ==
    [][Stepped("play") =>
          /\ Top(discardPile') = last'.card
          /\ \E k \in 1..Len(hands[last'.pid]) : hands[last'.pid][k] = last'.card
          /\ currentTurn = last'.pid
          /\ isValidMove(last'.card, Top(discardPile), activeSuit, attackStack)]_vars

\* C31: while an attack is pending the discard pile is not empty and its top
\* card is a 2
AttackFacesATwo ==
    attackStack > 0 =>
        /\ Len(discardPile) > 0
        /\ Top(discardPile).rank = "2"

\* C32: while a deal is in progress the deck, the hands, the discard pile,
\* the turn and the attack stack change only by the steps of dealing (a card
\* dealt, the start card flipped, the deal started again): no play, draw or
\* AI action is applied
OnlyDealingDuringDeal ==
    [][(isDealing /\ <<deck, hands, discardPile, currentTurn, attackStack>>'
                       # <<deck, hands, discardPile, currentTurn, attackStack>>)
          => last'.op \in {"deal", "flip", "newgame"}]_vars

====
